---- MODULE Spec2Model ----
(***************************************************************************)
(* A model of loanpayoff.py: analyze_loan_payoff_strategy(loans).          *)
(*                                                                         *)
(* A loan dictionary is a record whose DOMAIN is the dictionary's keys.    *)
(* Amounts are whole dollars, rates whole percent; monthly_interest is     *)
(* held in cents.  A float64 cell is a record [k, v]: a finite number      *)
(* (k = "num"), NaN, +inf or -inf.  A DataFrame is a function from column  *)
(* names to columns; a column is a sequence indexed by the row labels      *)
(* 1..n (pandas labels them 0..n-1).  A sorted DataFrame is the sequence   *)
(* of row labels in its order, which is what df.sort_values keeps as the   *)
(* index of its result.                                                    *)
(***************************************************************************)
EXTENDS Integers, Sequences, FiniteSets, Bags, TLC

VARIABLES loans, tie, calls, result

vars == <<loans, tie, calls, result>>

\* Longest loan list the caller builds.
MaxLen == 3

\* Number of times the caller runs the analysis on one list.
MaxCalls == 2

-----------------------------------------------------------------------------
\* float64 cells

Num(n) == [k |-> "num", v |-> n]

NaN == [k |-> "nan", v |-> 0]

PInf == [k |-> "pinf", v |-> 0]

NInf == [k |-> "ninf", v |-> 0]

IsNaN(x) == x.k = "nan"

IsFinite(x) == x.k = "num"

\* The name cell of a row whose dictionary has no 'name' key (a float NaN in
\* an object column).
NaNName == "nan"

\* x < y on float64, neither being NaN.
FloatLess(x, y) ==
    CASE x.k = "ninf" -> y.k # "ninf"
      [] x.k = "pinf" -> FALSE
      [] OTHER -> \/ y.k = "pinf"
                  \/ y.k = "num" /\ x.v < y.v

\* -x
Neg(x) ==
    CASE x.k = "num" -> Num(-x.v)
      [] x.k = "pinf" -> NInf
      [] x.k = "ninf" -> PInf
      [] OTHER -> NaN

\* x * y, x finite or NaN
Mul(x, y) ==
    CASE IsNaN(x) \/ IsNaN(y) -> NaN
      [] y.k = "num" -> Num(x.v * y.v)
      [] x.v = 0 -> NaN
      [] x.v > 0 -> y
      [] OTHER -> Neg(y)

\* n / d rounded to the nearest integer, halves to the even one (numpy's
\* round), d > 0.
RoundHalfEven(n, d) ==
    LET q == n \div d
        r == n - q * d
    IN  IF 2 * r < d THEN q
        ELSE IF 2 * r > d THEN q + 1
        ELSE IF q % 2 = 0 THEN q ELSE q + 1

\* 1000 * ln(p) to the nearest integer, for the balances of LoanPool.
LnMilli(p) ==
    CASE p = 500 -> 6215
      [] p = 1000 -> 6908
      [] p = 2000 -> 7601

\* NpLog with the logarithm of a balance of zero or less clamped to 0.
NpLogClamped(x) ==
    IF IsNaN(x) THEN NaN
    ELSE IF x.v <= 0 THEN Num(0)
    ELSE Num(LnMilli(x.v))

\* np.log of a principal cell: -inf at 0 and NaN below it (with a
\* RuntimeWarning, not an exception).
NpLog(x) ==
    IF IsNaN(x) THEN NaN
    ELSE IF x.v = 0 THEN NInf
    ELSE IF x.v < 0 THEN NaN
    ELSE Num(LnMilli(x.v))

-----------------------------------------------------------------------------
\* The inputs

\* The dictionaries the caller draws loans from: the spec's scenario (A, B,
\* C), a balance tied with C and a monthly interest tied with A (D), paid-off
\* loans with a positive, zero and negative rate (Z, Z0, ZN), and
\* dictionaries lacking one key.
LoanPool ==
    { [name |-> "A", principal |-> 1000, rate |-> 10, min_payment |-> 20],
      [name |-> "B", principal |-> 500, rate |-> 5, min_payment |-> 10],
      [name |-> "C", principal |-> 2000, rate |-> 10, min_payment |-> 40],
      [name |-> "D", principal |-> 2000, rate |-> 5, min_payment |-> 40],
      [name |-> "Z", principal |-> 0, rate |-> 7, min_payment |-> 0],
      [name |-> "Z0", principal |-> 0, rate |-> 0, min_payment |-> 0],
      [name |-> "ZN", principal |-> 0, rate |-> -5, min_payment |-> 0],
      [name |-> "P", rate |-> 5, min_payment |-> 10],
      [name |-> "R", principal |-> 500, min_payment |-> 10],
      [name |-> "M", principal |-> 1000, rate |-> 5],
      [principal |-> 500, rate |-> 10, min_payment |-> 10] }

\* The orders in which a build's argsort may leave rows of equal key: tie[i]
\* is the rank of row i among its equals.  kind='quicksort' promises no
\* order; the two extremes are kept, the input order (a stable sort, which
\* numpy's scalar quicksort is below 17 rows) and its reverse.
TieOrders ==
    { [i \in 1..MaxLen |-> i], [i \in 1..MaxLen |-> MaxLen + 1 - i] }

-----------------------------------------------------------------------------
\* Line 18: pd.DataFrame(loans)

Columns(ls) == UNION { DOMAIN ls[i] : i \in 1..Len(ls) }

DataFrame(ls) ==
    [ c \in Columns(ls) |->
        [ i \in 1..Len(ls) |->
            IF c \in DOMAIN ls[i]
            THEN IF c = "name" THEN ls[i][c] ELSE Num(ls[i][c])
            ELSE IF c = "name" THEN NaNName ELSE NaN ] ]

NRows(df) == IF DOMAIN df = {} THEN 0 ELSE Len(df[CHOOSE c \in DOMAIN df : TRUE])

Rows(df) == 1..NRows(df)

\* Line 21: (principal * (rate/100) / 12).round(2), in cents
MonthlyInterest(p, r) ==
    IF IsNaN(p) \/ IsNaN(r) THEN NaN
    ELSE Num(RoundHalfEven(p.v * r.v * 100, 100 * 12))

\* Line 24: (rate / 100) / principal, in millionths; pandas gives +-inf for a
\* division by zero and NaN for 0/0.
InterestPrincipalRatio(p, r) ==
    IF IsNaN(p) \/ IsNaN(r) THEN NaN
    ELSE IF p.v = 0
         THEN IF r.v > 0 THEN PInf ELSE IF r.v < 0 THEN NInf ELSE NaN
         ELSE Num((r.v * 10000) \div p.v)

\* Line 27
AvalancheScore(p, r) == r

\* SnowballScore without the negation.
SnowballScoreUnsigned(p, r) == p

\* Line 28
SnowballScore(p, r) == Neg(p)

\* Line 29
BalancedScore(p, r) == Mul(r, NpLog(p))

\* Lines 21-29: the derived columns added to df
Derive(df) ==
    LET col(F(_, _)) == [ i \in Rows(df) |-> F(df["principal"][i], df["rate"][i]) ]
        new == [ monthly_interest |-> col(MonthlyInterest),
                 interest_principal_ratio |-> col(InterestPrincipalRatio),
                 avalanche_score |-> col(AvalancheScore),
                 snowball_score |-> col(SnowballScore),
                 balanced_score |-> col(BalancedScore) ]
    IN  [ c \in DOMAIN df \cup DOMAIN new |->
            IF c \in DOMAIN new THEN new[c] ELSE df[c] ]


-----------------------------------------------------------------------------
\* Lines 33-35: df.sort_values(by, ascending=False), default kind
\* ('quicksort') and na_position ('last')

\* The row of S that a descending argsort puts first: one of greatest key,
\* and among rows of equal key the one the build's tie order ranks first.
First(col, S, t) ==
    CHOOSE i \in S :
        \A j \in S \ {i} :
            \/ FloatLess(col[j], col[i])
            \/ col[j] = col[i] /\ t[i] < t[j]

RECURSIVE Descending(_, _, _)
Descending(col, S, t) ==
    IF S = {} THEN <<>>
    ELSE LET i == First(col, S, t)
         IN  <<i>> \o Descending(col, S \ {i}, t)

RECURSIVE InLabelOrder(_)
InLabelOrder(S) ==
    IF S = {} THEN <<>>
    ELSE LET i == CHOOSE x \in S : \A y \in S : x <= y
         IN  <<i>> \o InLabelOrder(S \ {i})

\* SortValues that drops the rows whose key is NaN.
SortValuesDropNa(df, by, t) ==
    LET col == df[by]
        nans == { i \in Rows(df) : IsNaN(col[i]) }
    IN  Descending(col, Rows(df) \ nans, t)

\* The rows whose key is not NaN in descending order, then the NaN rows in
\* label order.
SortValues(df, by, t) ==
    LET col == df[by]
        nans == { i \in Rows(df) : IsNaN(col[i]) }
    IN  Descending(col, Rows(df) \ nans, t) \o InLabelOrder(nans)

-----------------------------------------------------------------------------
\* Lines 39-40: Series.sum(), which skips NaN

RECURSIVE SumOver(_, _)
SumOver(col, S) ==
    IF S = {} THEN 0
    ELSE LET i == CHOOSE x \in S : TRUE
         IN  col[i].v + SumOver(col, S \ {i})

ColumnSum(col) == SumOver(col, { i \in DOMAIN col : ~IsNaN(col[i]) })

\* IdxMax returning the last row that holds the greatest value.
IdxMaxLast(col) ==
    LET S == { i \in DOMAIN col : ~IsNaN(col[i]) }
    IN  IF S = {} THEN 0
        ELSE CHOOSE i \in S :
                 /\ \A j \in S : ~FloatLess(col[i], col[j])
                 /\ \A j \in S : j > i => FloatLess(col[j], col[i])

\* Lines 47-49: Series.idxmax() and idxmin(), which skip NaN and return the
\* label of the first row holding the extreme value; 0 stands for the
\* failure on a column that is all NaN.
IdxMax(col) ==
    LET S == { i \in DOMAIN col : ~IsNaN(col[i]) }
    IN  IF S = {} THEN 0
        ELSE CHOOSE i \in S :
                 /\ \A j \in S : ~FloatLess(col[i], col[j])
                 /\ \A j \in S : j < i => FloatLess(col[j], col[i])

IdxMin(col) ==
    LET S == { i \in DOMAIN col : ~IsNaN(col[i]) }
    IN  IF S = {} THEN 0
        ELSE CHOOSE i \in S :
                 /\ \A j \in S : ~FloatLess(col[j], col[i])
                 /\ \A j \in S : j < i => FloatLess(col[i], col[j])

-----------------------------------------------------------------------------
\* analyze_loan_payoff_strategy

NoResult == [status |-> "none"]

Raised(exc, arg, line) == [status |-> "raised", exc |-> exc, arg |-> arg, line |-> line]

\* Lines 32-36
Strategies(df, t) ==
    [ avalanche_method |-> SortValues(df, "avalanche_score", t),
      snowball_method |-> SortValues(df, "snowball_score", t),
      balanced_method |-> SortValues(df, "balanced_score", t) ]

\* Line 39
TotalDebt(df) == ColumnSum(df["principal"])

\* TotalMonthlyInterest as the sum of the unrounded interests, rounded once.
TotalMonthlyInterestRoundedOnce(df) ==
    LET S == { i \in Rows(df) : ~IsNaN(df["monthly_interest"][i]) }
        exact == [ i \in Rows(df) |-> Num(df["principal"][i].v * df["rate"][i].v * 100) ]
    IN  RoundHalfEven(SumOver(exact, S), 100 * 12)

\* Line 40
TotalMonthlyInterest(df) == ColumnSum(df["monthly_interest"])

\* Lines 42-51
Summary(df) ==
    [ total_debt |-> TotalDebt(df),
      total_monthly_interest |-> TotalMonthlyInterest(df),
      highest_interest_loan |-> df["name"][IdxMax(df["rate"])],
      smallest_balance_loan |-> df["name"][IdxMin(df["principal"])],
      most_expensive_loan |-> df["name"][IdxMax(df["monthly_interest"])] ]

\* What a call returns or raises.  A column no dictionary supplies does not
\* exist, and reading it raises KeyError: so does an empty list, at line 21.
\* An extremal lookup on a column that is all NaN raises (KeyError or
\* ValueError, by the pandas version).
AnalyzeResult(ls, t) ==
    LET df0 == DataFrame(ls) IN
    IF "principal" \notin DOMAIN df0 THEN Raised("KeyError", "principal", 21)
    ELSE IF "rate" \notin DOMAIN df0 THEN Raised("KeyError", "rate", 21)
    ELSE LET df == Derive(df0) IN
         IF IdxMax(df["rate"]) = 0 THEN Raised("LookupError", "idxmax", 47)
         ELSE IF "name" \notin DOMAIN df THEN Raised("KeyError", "name", 47)
         ELSE IF IdxMin(df["principal"]) = 0 THEN Raised("LookupError", "idxmin", 48)
         ELSE IF IdxMax(df["monthly_interest"]) = 0 THEN Raised("LookupError", "idxmax", 49)
         ELSE [ status |-> "returned",
                df |-> df,
                strategies |-> Strategies(df, t),
                summary |-> Summary(df) ]

-----------------------------------------------------------------------------
\* The caller

Init ==
    /\ loans = <<>>
    /\ tie \in TieOrders
    /\ calls = 0
    /\ result = NoResult

\* The caller puts one more dictionary on its list (lines 56-72).
AddLoan(d) ==
    /\ Len(loans) < MaxLen
    /\ loans' = Append(loans, d)
    /\ calls' = 0
    /\ result' = NoResult
    /\ UNCHANGED tie

\* Analyze sorting the caller's list in place by rate before analysing it.
AnalyzeInPlace ==
    /\ calls < MaxCalls
    /\ AnalyzeResult(loans, tie).status = "returned"
    /\ loans' = [ k \in 1..Len(loans) |->
                    loans[AnalyzeResult(loans, tie).strategies["avalanche_method"][k]] ]
    /\ result' = AnalyzeResult(loans', tie)
    /\ calls' = calls + 1
    /\ UNCHANGED tie

\* Line 74: result = analyze_loan_payoff_strategy(current_loans)
Analyze ==
    /\ calls < MaxCalls
    /\ result' = AnalyzeResult(loans, tie)
    /\ calls' = calls + 1
    /\ UNCHANGED <<loans, tie>>

Next ==
    \/ \E d \in LoanPool : AddLoan(d)
    \/ Analyze

Spec == Init /\ [][Next]_vars

-----------------------------------------------------------------------------
\* Vocabulary of the properties

Returned == result.status = "returned"

Methods == {"avalanche_method", "snowball_method", "balanced_method"}

ScoreColumn(m) ==
    CASE m = "avalanche_method" -> "avalanche_score"
      [] m = "snowball_method" -> "snowball_score"
      [] m = "balanced_method" -> "balanced_score"

Required == {"name", "principal", "rate"}

\* The rows of the input whose dictionary has every key of K.
Holders(K) == { i \in 1..Len(loans) : K \subseteq DOMAIN loans[i] }

NameOf(d) == IF "name" \in DOMAIN d THEN d.name ELSE NaNName

\* Number of indices of the sequence s that hold x.
Count(s, x) == Cardinality({ k \in 1..Len(s) : s[k] = x })

InputNames == [ i \in 1..Len(loans) |-> NameOf(loans[i]) ]

RankedNames(m) ==
    [ k \in 1..Len(result.strategies[m]) |-> result.df["name"][result.strategies[m][k]] ]

\* principal * (rate/100) / 12 of a dictionary in cents, as a fraction over 12
Cents12(d) == d.principal * d.rate

RECURSIVE SumOf(_, _)
SumOf(F(_), S) ==
    IF S = {} THEN 0
    ELSE LET i == CHOOSE x \in S : TRUE
         IN  F(loans[i]) + SumOf(F, S \ {i})

PrincipalOf(d) == d.principal

RoundedInterestOf(d) == RoundHalfEven(Cents12(d), 12)

\* rate * ln(principal) of a dictionary with a positive principal
LogScoreOf(d) == d.rate * LnMilli(d.principal)

-----------------------------------------------------------------------------
\* C1: each of the three rankings of a returned report is a permutation of
\* the input: it lists every row exactly once, and every name occurs in it as
\* often as in the input.
C1_Permutation ==
    Returned =>
        \A m \in Methods :
            LET r == result.strategies[m] IN
            /\ Len(r) = Len(loans)
            /\ \A i \in 1..Len(loans) : Count(r, i) = 1
            /\ \A i \in 1..Len(loans) :
                   Count(RankedNames(m), InputNames[i]) = Count(InputNames, InputNames[i])

\* C1 witness: a report on three loans, two of them of one name and one
\* lacking its rate, whose avalanche ranking is not the input order.
C1_Witness ==
    /\ Returned
    /\ Len(loans) = 3
    /\ \E i, j \in 1..3 : i < j /\ InputNames[i] = InputNames[j]
    /\ \E i \in 1..3 : "rate" \notin DOMAIN loans[i]
    /\ result.strategies["avalanche_method"] # <<1, 2, 3>>

\* C2: in a returned report the avalanche ranking is non-increasing in rate,
\* the snowball ranking non-decreasing in principal, and the loans of positive
\* principal stand in the balanced ranking in non-increasing order of
\* rate * ln(principal).
C2_SortCorrect ==
    Returned =>
        \A a, b \in 1..Len(loans) :
            a < b =>
                /\ LET i == result.strategies["avalanche_method"][a]
                       j == result.strategies["avalanche_method"][b]
                   IN  {i, j} \subseteq Holders({"rate"}) =>
                           loans[i].rate >= loans[j].rate
                /\ LET i == result.strategies["snowball_method"][a]
                       j == result.strategies["snowball_method"][b]
                   IN  {i, j} \subseteq Holders({"principal"}) =>
                           loans[i].principal <= loans[j].principal
                /\ LET i == result.strategies["balanced_method"][a]
                       j == result.strategies["balanced_method"][b]
                   IN  /\ {i, j} \subseteq Holders({"principal", "rate"})
                       /\ loans[i].principal > 0
                       /\ loans[j].principal > 0
                       => LogScoreOf(loans[i]) >= LogScoreOf(loans[j])

\* C2 witness: the spec's scenario [A, B, C], ranked [B, A, C] by snowball
\* and [C, A, B] by the balanced score.
C2_Witness ==
    /\ Returned
    /\ Len(loans) = 3
    /\ InputNames = <<"A", "B", "C">>
    /\ result.strategies["snowball_method"] = <<2, 1, 3>>
    /\ result.strategies["balanced_method"] = <<3, 1, 2>>

\* C3: the sorts are stable: in the report on a list of complete loans of
\* distinct names, two loans of identical score for a strategy stand in that strategy's ranking
\* in their input order.
C3_Stable ==
    /\ Returned
    /\ Holders(Required \cup {"min_payment"}) = 1..Len(loans)
    /\ \A i, j \in 1..Len(loans) : loans[i].name = loans[j].name => i = j
    =>  \A m \in Methods :
            \A a, b \in 1..Len(loans) :
                LET r == result.strategies[m]
                    col == result.df[ScoreColumn(m)]
                IN  a < b /\ col[r[a]] = col[r[b]] => r[a] < r[b]

\* C4: the summary names the first loan in input order of greatest rate, of
\* least principal, and of greatest rounded monthly interest.
C4_Extremal ==
    Returned =>
        /\ \E i \in Holders({"rate"}) :
               /\ \A j \in Holders({"rate"}) : loans[j].rate <= loans[i].rate
               /\ \A j \in Holders({"rate"}) : j < i => loans[j].rate < loans[i].rate
               /\ result.summary.highest_interest_loan = NameOf(loans[i])
        /\ \E i \in Holders({"principal"}) :
               /\ \A j \in Holders({"principal"}) : loans[j].principal >= loans[i].principal
               /\ \A j \in Holders({"principal"}) :
                      j < i => loans[j].principal > loans[i].principal
               /\ result.summary.smallest_balance_loan = NameOf(loans[i])
        /\ \E i \in Holders({"principal", "rate"}) :
               /\ \A j \in Holders({"principal", "rate"}) :
                      RoundedInterestOf(loans[j]) <= RoundedInterestOf(loans[i])
               /\ \A j \in Holders({"principal", "rate"}) :
                      j < i => RoundedInterestOf(loans[j]) < RoundedInterestOf(loans[i])
               /\ result.summary.most_expensive_loan = NameOf(loans[i])

\* C4 witness: a report on loans with every required key where two loans of
\* different names share the greatest rate, two share the least principal,
\* and the loan of greatest monthly interest is not the first.
C4_Witness ==
    /\ Returned
    /\ Holders(Required) = 1..Len(loans)
    /\ \E i, j \in 1..Len(loans) :
           /\ i < j /\ loans[i].name # loans[j].name
           /\ loans[i].rate = loans[j].rate
           /\ \A k \in 1..Len(loans) : loans[k].rate <= loans[i].rate
    /\ \E i, j \in 1..Len(loans) :
           /\ i < j /\ loans[i].name # loans[j].name
           /\ loans[i].principal = loans[j].principal
           /\ \A k \in 1..Len(loans) : loans[k].principal >= loans[i].principal
    /\ result.summary.most_expensive_loan # loans[1].name

\* C5: total_debt is the sum of the input principals, and
\* total_monthly_interest the sum of the monthly interests each rounded to the
\* cent before summing.
C5_Aggregates ==
    Returned =>
        /\ result.summary.total_debt = SumOf(PrincipalOf, Holders({"principal"}))
        /\ result.summary.total_monthly_interest =
               SumOf(RoundedInterestOf, Holders({"principal", "rate"}))

\* C5 witness: a report on complete loans whose total_monthly_interest is not
\* the rounded sum of the unrounded interests.
C5_Witness ==
    /\ Returned
    /\ Holders(Required) = 1..Len(loans)
    /\ result.summary.total_monthly_interest #
           RoundHalfEven(SumOf(Cents12, 1..Len(loans)), 12)
    /\ result.summary.total_debt > 0

\* The rows of the input whose principal is given and is zero.
ZeroPrincipal == { i \in Holders({"principal"}) : loans[i].principal = 0 }

\* The rows of the input with a positive principal and a rate.
Scored == { i \in Holders({"principal", "rate"}) : loans[i].principal > 0 }

\* The place of row i in the ranking r.
Place(r, i) == CHOOSE k \in 1..Len(r) : r[k] = i

\* C6: a call on a list holding a loan of principal 0 returns a report; that
\* loan stands in all three rankings with a non-finite
\* interest_principal_ratio and balanced_score; every loan of positive
\* principal keeps a finite ratio and the balanced_score rate * ln(principal),
\* and these loans are ranked among themselves by that score.
C6_ZeroPrincipal ==
    calls > 0 /\ ZeroPrincipal # {} =>
        /\ Returned
        /\ \A z \in ZeroPrincipal :
               /\ \A m \in Methods : Count(result.strategies[m], z) = 1
               /\ ~IsFinite(result.df["interest_principal_ratio"][z])
               /\ ~IsFinite(result.df["balanced_score"][z])
        /\ \A i \in Scored :
               /\ IsFinite(result.df["interest_principal_ratio"][i])
               /\ result.df["balanced_score"][i] = Num(LogScoreOf(loans[i]))
        /\ \A i, j \in Scored :
               LogScoreOf(loans[i]) > LogScoreOf(loans[j]) =>
                   Place(result.strategies["balanced_method"], i)
                       < Place(result.strategies["balanced_method"], j)

\* C6 witness: a report on three loans, the first of principal 0 and a
\* positive rate, the other two of positive principal and ranked by the
\* balanced score against their input order.
C6_Witness ==
    /\ Returned
    /\ Len(loans) = 3
    /\ ZeroPrincipal = {1}
    /\ loans[1].rate > 0
    /\ Scored = {2, 3}
    /\ result.strategies["balanced_method"] = <<3, 2, 1>>

\* C7: a call on an empty list raises a dedicated "no loans to analyze"
\* error, not the KeyError of a column lookup.
C7_EmptyInput ==
    calls > 0 /\ loans = <<>> =>
        /\ result.status = "raised"
        /\ result.exc # "KeyError"

\* C8: a call on a list holding a dictionary without name, principal or rate
\* raises and returns no report, also when other dictionaries of the list
\* supply that key.
C8_InvalidRecord ==
    calls > 0 /\ Holders(Required) # 1..Len(loans) => result.status = "raised"

C10_NonFiniteLast ==
    Returned /\ Holders(Required \cup {"min_payment"}) = 1..Len(loans) =>
        \A a, b \in 1..Len(loans) :
            LET r == result.strategies["balanced_method"]
                col == result.df["balanced_score"]
            IN  a < b /\ IsFinite(col[r[b]]) => IsFinite(col[r[a]])

=============================================================================
